---------------------------- MODULE Spec2Model ----------------------------
(***************************************************************************)
(* A model of gammapy's dataset aggregation and covariance bookkeeping:    *)
(*   - Datasets, the ordered name-unique collection   (datasets/core.py)   *)
(*   - DatasetsActor, its ray-actor variant            (datasets/core.py)  *)
(*   - Covariance                                  (modeling/covariance.py)*)
(*                                                                         *)
(* Numbers.  Statistic values are counted in quarters (4 = 1.0), so that   *)
(* every sum of the model is exact.  Covariance values are counted in      *)
(* units of 1e-8, the absolute tolerance of numpy.allclose.                *)
(***************************************************************************)
EXTENDS Integers, Sequences, FiniteSets, TLC

VARIABLES
    \* ---- Datasets -------------------------------------------------------
    constructed,  \* FALSE before __init__ has returned normally
    datasets,     \* self._datasets: a sequence of dataset references
    last,         \* the last call and how it ended: [op, result]
    ret,          \* what the last call returned, when it returned something:
                  \* stat_sum() a number, select_time() the selected datasets,
                  \* stack_reduce() a dataset, info_table() its rows
    calls,        \* the calls the last call made on datasets, in order: the
                  \* datasets stat_sum() visited, the copy and stack calls of
                  \* stack_reduce() and info_table()
    pvalue,       \* the parameter value of the local model of each dataset name
    \* ---- DatasetsActor --------------------------------------------------
    actors,       \* self._actors: a sequence of worker handles
    wdata,        \* the dataset each worker holds (0: not spawned)
    wval,         \* the parameter value of each worker's private copy
    queue,        \* each worker's mailbox of submitted tasks
    acked,        \* workers whose set_parameter_values future is resolved
    res,          \* the resolved stat_sum futures, by worker
    pc,           \* where DatasetsActor.stat_sum() stands
    args,         \* the local `args` of DatasetsActor.stat_sum()
    sent,         \* how many tasks the running list comprehension submitted
    statSent,     \* workers that were sent the stat_sum task of this call
    \* ---- Covariance -----------------------------------------------------
    pool,         \* self.parameters: a sequence of parameter references
    data,         \* self._data: the dense matrix, a sequence of rows
    cop,          \* the last Covariance call
    carg,         \* its argument
    sub,          \* the Covariance the last call read out of C: what
                  \* get_subcovariance returned, or the block set_subcovariance
                  \* compared its argument with
    covar_list,   \* the argument of from_stack
    errors        \* the error of each parameter when from_stack read them

dsVars    == <<constructed, datasets, last, ret, calls, pvalue>>
actorVars == <<actors, wdata, wval, queue, acked, res, pc, args, sent, statSent>>
covVars   == <<pool, data, cop, carg, sub, covar_list, errors>>
vars      == <<dsVars, actorVars, covVars>>

NoMask  == <<>>     \* a mask attribute that is None
NoValue == -1       \* no number here (statistics are never negative)

(***************************************************************************)
(* Bounds of the model.                                                    *)
(***************************************************************************)
NumNames    == 3   \* distinct dataset names
MaxExtend   == 2   \* longest argument of extend()

\* The dataset objects: one more than there are names, so that the first
\* and the last are two datasets of the same name.
Objs     == 1 .. NumNames + 1
Names    == 1 .. NumNames
ParVals  == {0, 1}
NotADataset == 0                    \* a value that is no Dataset instance
Ghosts   == {-n : n \in Names}      \* MapDataset(name=n) made by from_actors
AllObjs  == Objs \cup Ghosts

\* Dataset.name
name(d) == IF d < 0 THEN -d ELSE ((d - 1) % NumNames) + 1

isDataset(v) == v \in AllObjs

(***************************************************************************)
(* Dataset: the statistic of one dataset.                                  *)
(***************************************************************************)
\* The data of the concrete datasets: per-bin statistic at parameter value 0.
counts(d) ==
    CASE d = 1 -> <<4>>
      [] d = 2 -> <<6, 4, 9>>
      [] d = 3 -> <<3, 5>>
      [] OTHER -> <<2 * d, 1>>

mask_safe(d) ==
    CASE d = 2 -> <<TRUE, TRUE, FALSE>>
      [] d = 3 -> <<TRUE, TRUE>>
      [] OTHER -> NoMask

mask_fit(d) ==
    CASE d = 3 -> <<TRUE, FALSE>>
      [] OTHER -> NoMask

\* Dataset.mask
mask(d) ==
    IF mask_safe(d) # NoMask /\ mask_fit(d) # NoMask
    THEN [i \in 1 .. Len(mask_safe(d)) |-> mask_safe(d)[i] /\ mask_fit(d)[i]]
    ELSE IF mask_fit(d) # NoMask THEN mask_fit(d)
    ELSE IF mask_safe(d) # NoMask THEN mask_safe(d)
    ELSE NoMask

\* Dataset.stat_array of a concrete dataset type: one value per data point,
\* a function of the data and of the model's parameter value v.
stat_array(d, v) == [i \in 1 .. Len(counts(d)) |-> counts(d)[i] + 4 * v * i]

RECURSIVE npsum(_)
npsum(s) == IF s = <<>> THEN 0 ELSE s[1] + npsum(Tail(s))

\* stat[self.mask.data]: boolean-mask selection
Select(s, m) == SelectSeq([i \in 1 .. Len(s) |-> <<s[i], m[i]>>], LAMBDA x : x[2])

\* Dataset.stat_sum
Dataset_stat_sum(d, v) ==
    LET stat == stat_array(d, v)
        kept == Select(stat, mask(d))
    IN  IF mask(d) # NoMask
        THEN npsum([i \in 1 .. Len(kept) |-> kept[i][1]])
        ELSE npsum(stat)

(***************************************************************************)
(* Datasets.                                                               *)
(***************************************************************************)
\* Datasets.names
names(ds) == [i \in 1 .. Len(ds) |-> name(ds[i])]

InSeq(x, s) == \E i \in 1 .. Len(s) : s[i] = x

\* list.index: the first position holding x (0 when there is none)
ListIndex(s, x) ==
    IF InSeq(x, s) THEN CHOOSE i \in 1 .. Len(s) : s[i] = x /\ \A j \in 1 .. i - 1 : s[j] # x
    ELSE 0

\* The loop of Datasets.__init__ over the names: TRUE when it raises.
RECURSIVE HasDuplicate(_, _)
HasDuplicate(ds, unique_names) ==
    IF ds = <<>> THEN FALSE
    ELSE IF InSeq(name(Head(ds)), unique_names) THEN TRUE
    ELSE HasDuplicate(Tail(ds), Append(unique_names, name(Head(ds))))

\* What the constructor is given.
SeqsUpTo(S, n) == UNION {[1 .. k -> S] : k \in 0 .. n}
CtorInputs ==
    {[kind |-> "none", v |-> <<>>], [kind |-> "other", v |-> <<>>]}
    \cup {[kind |-> "dataset", v |-> <<d>>] : d \in Objs}
    \cup {[kind |-> "list", v |-> s] : s \in SeqsUpTo(Objs, NumNames)}

\* Datasets.__init__
Init_call(in) ==
    /\ ~constructed
    /\ IF in.kind = "other"
       THEN /\ last' = [op |-> "init", result |-> "TypeError"]
            /\ UNCHANGED <<constructed, datasets>>
       ELSE IF HasDuplicate(in.v, <<>>)
       THEN /\ last' = [op |-> "init", result |-> "ValueError"]
            /\ UNCHANGED <<constructed, datasets>>
       ELSE /\ datasets' = in.v
            /\ constructed' = TRUE
            /\ last' = [op |-> "init", result |-> "ok"]
    /\ UNCHANGED <<ret, calls, pvalue>>

\* list.insert(idx, x): idx is clamped into 0..len (0-based, as in Python)
ListInsert(s, idx, x) ==
    LET n == Len(s)
        j == IF idx < 0 THEN (IF idx + n < 0 THEN 0 ELSE idx + n)
             ELSE IF idx > n THEN n ELSE idx
    IN  SubSeq(s, 1, j) \o <<x>> \o SubSeq(s, j + 1, n)

\* insert without the check of the name
insert_unchecked(ds, idx, dataset) ==
    IF isDataset(dataset)
    THEN [ds |-> ListInsert(ds, idx, dataset), result |-> "ok"]
    ELSE [ds |-> ds, result |-> "TypeError"]

\* The body of Datasets.insert: the collection it leaves and how it ends.
insert(ds, idx, dataset) ==
    IF isDataset(dataset)
    THEN IF InSeq(name(dataset), names(ds))
         THEN [ds |-> ds, result |-> "ValueError"]
         ELSE [ds |-> ListInsert(ds, idx, dataset), result |-> "ok"]
    ELSE [ds |-> ds, result |-> "TypeError"]

\* MutableSequence.append: self.insert(len(self), value)
append(ds, value) == insert(ds, Len(ds), value)

\* MutableSequence.extend: append one by one, up to the first that raises
RECURSIVE extend(_, _)
extend(ds, values) ==
    IF values = <<>> THEN [ds |-> ds, result |-> "ok"]
    ELSE LET r == append(ds, Head(values))
         IN  IF r.result = "ok" THEN extend(r.ds, Tail(values)) ELSE r

(***************************************************************************)
(* Keys of the sequence protocol.  Positions are Python's: 0-based, and a  *)
(* negative position counts from the end.                                  *)
(***************************************************************************)
MaxIdx == NumNames + 1
Keys ==
    {[kind |-> "int", a |-> i, b |-> 0] : i \in -MaxIdx .. MaxIdx}
    \cup {[kind |-> "slice", a |-> lo, b |-> hi] : lo \in 0 .. NumNames, hi \in 0 .. NumNames}
    \cup {[kind |-> "str", a |-> n, b |-> 0] : n \in Names}
    \cup {[kind |-> "obj", a |-> d, b |-> 0] : d \in Objs}
    \cup {[kind |-> "other", a |-> 0, b |-> 0]}

\* Datasets.index: the list key a key stands for, or the error raised.
index(ds, key) ==
    CASE key.kind \in {"int", "slice"} -> [result |-> "ok", key |-> key]
      [] key.kind = "str" ->
            IF InSeq(key.a, names(ds))
            THEN [result |-> "ok",
                  key |-> [kind |-> "int", a |-> ListIndex(names(ds), key.a) - 1, b |-> 0]]
            ELSE [result |-> "ValueError", key |-> key]
      [] key.kind = "obj" ->
            IF InSeq(key.a, ds)
            THEN [result |-> "ok",
                  key |-> [kind |-> "int", a |-> ListIndex(ds, key.a) - 1, b |-> 0]]
            ELSE [result |-> "ValueError", key |-> key]
      [] OTHER -> [result |-> "TypeError", key |-> key]

\* The 1-based position a Python position i stands for in a list of n
\* elements; 0 when it is out of range (IndexError).
Position(i, n) ==
    LET j == IF i < 0 THEN i + n ELSE i
    IN  IF 0 <= j /\ j < n THEN j + 1 ELSE 0

Min(a, b) == IF a < b THEN a ELSE b

\* list.__setitem__(k, x) for a Dataset x, which is not iterable
ListSetItem(s, k, x) ==
    IF k.kind = "slice" THEN [ds |-> s, result |-> "TypeError"]
    ELSE IF Position(k.a, Len(s)) = 0 THEN [ds |-> s, result |-> "IndexError"]
    ELSE [ds |-> [s EXCEPT ![Position(k.a, Len(s))] = x], result |-> "ok"]

\* list.__delitem__(k)
ListDelItem(s, k) ==
    IF k.kind = "slice"
    THEN LET lo == Min(k.a, Len(s))
             hi == Min(k.b, Len(s))
         IN  IF lo < hi
             THEN [ds |-> SubSeq(s, 1, lo) \o SubSeq(s, hi + 1, Len(s)), result |-> "ok"]
             ELSE [ds |-> s, result |-> "ok"]
    ELSE IF Position(k.a, Len(s)) = 0 THEN [ds |-> s, result |-> "IndexError"]
    ELSE LET p == Position(k.a, Len(s))
         IN  [ds |-> SubSeq(s, 1, p - 1) \o SubSeq(s, p + 1, Len(s)), result |-> "ok"]

\* __setitem__ that stores the dataset first and checks the name afterwards
setitem_store_first(ds, key, dataset) ==
    IF isDataset(dataset)
    THEN LET k == index(ds, key)
             stored == IF k.result # "ok" THEN [ds |-> ds, result |-> k.result]
                       ELSE ListSetItem(ds, k.key, dataset)
         IN  IF InSeq(name(dataset), names(ds))
             THEN [ds |-> stored.ds, result |-> "ValueError"]
             ELSE stored
    ELSE [ds |-> ds, result |-> "TypeError"]

\* __setitem__ with the name test leaving out the position that is replaced
setitem_except_key(ds, key, dataset) ==
    IF isDataset(dataset)
    THEN LET k == index(ds, key)
             p == IF k.result = "ok" /\ k.key.kind = "int" THEN Position(k.key.a, Len(ds)) ELSE 0
         IN  IF \E i \in 1 .. Len(ds) : i # p /\ name(ds[i]) = name(dataset)
             THEN [ds |-> ds, result |-> "ValueError"]
             ELSE IF k.result # "ok" THEN [ds |-> ds, result |-> k.result]
                  ELSE ListSetItem(ds, k.key, dataset)
    ELSE [ds |-> ds, result |-> "TypeError"]

\* The body of Datasets.__setitem__
setitem(ds, key, dataset) ==
    IF isDataset(dataset)
    THEN IF InSeq(name(dataset), names(ds))
         THEN [ds |-> ds, result |-> "ValueError"]
         ELSE LET k == index(ds, key)
              IN  IF k.result # "ok" THEN [ds |-> ds, result |-> k.result]
                  ELSE ListSetItem(ds, k.key, dataset)
    ELSE [ds |-> ds, result |-> "TypeError"]

\* The body of Datasets.__delitem__
delitem(ds, key) ==
    LET k == index(ds, key)
    IN  IF k.result # "ok" THEN [ds |-> ds, result |-> k.result]
        ELSE ListDelItem(ds, k.key)

\* The loop of Datasets.stat_sum: the running sum and the datasets visited.
RECURSIVE stat_sum_loop(_, _, _, _)
stat_sum_loop(ds, vals, stat_sum, visited) ==
    IF ds = <<>> THEN [stat_sum |-> stat_sum, visited |-> visited]
    ELSE stat_sum_loop(Tail(ds), vals,
                       stat_sum + Dataset_stat_sum(Head(ds), vals[name(Head(ds))]),
                       Append(visited, Head(ds)))

\* stat_sum whose loop leaves out the first dataset
Datasets_stat_sum_skip_first(ds, vals) ==
    IF ds = <<>> THEN stat_sum_loop(ds, vals, 0, <<>>)
    ELSE stat_sum_loop(Tail(ds), vals, 0, <<>>)

\* Datasets.stat_sum
Datasets_stat_sum(ds, vals) == stat_sum_loop(ds, vals, 0, <<>>)

(***************************************************************************)
(* The calls on a Datasets, as actions.  A call on a DatasetsActor is made *)
(* by the one local thread, so none starts while stat_sum() is running.    *)
(***************************************************************************)
Values == Objs \cup {NotADataset}

Apply(op, r) ==
    /\ constructed
    /\ pc = "idle"
    /\ datasets' = r.ds
    /\ last' = [op |-> op, result |-> r.result]
    /\ ret' = NoValue
    /\ calls' = <<>>
    /\ UNCHANGED <<constructed, pvalue>>

Insert   == \E idx \in -MaxIdx .. MaxIdx, v \in Values : Apply("insert", insert(datasets, idx, v))
AppendOp == \E v \in Values : Apply("append", append(datasets, v))
Extend   == \E vs \in SeqsUpTo(Values, MaxExtend) : Apply("extend", extend(datasets, vs))
SetItem  ==
    \E key \in Keys, v \in Values :
      \E r \in {setitem(datasets, key, v)} :
        /\ constructed
        /\ pc = "idle"
        /\ datasets' = r.ds
        /\ last' = [op |-> "setitem", result |-> r.result, args |-> <<key, v>>]
        /\ ret' = NoValue
        /\ calls' = <<>>
        /\ UNCHANGED <<constructed, pvalue>>
DelItem  == \E key \in Keys : Apply("delitem", delitem(datasets, key))

StatSum ==
    /\ constructed
    /\ pc = "idle"
    /\ ret' = Datasets_stat_sum(datasets, pvalue).stat_sum
    /\ calls' = Datasets_stat_sum(datasets, pvalue).visited
    /\ last' = [op |-> "stat_sum", result |-> "ok"]
    /\ UNCHANGED <<constructed, datasets, pvalue>>

Construct == \E in \in CtorInputs : Init_call(in)

\* ---- Dataset.copy ---------------------------------------------------------
\* A dataset as a value: [name, has_models, models, data].  has_models is
\* FALSE when _models is None.  data lists the dataset objects whose data it
\* holds, its own first and then those stacked onto it, in stacking order.
\* A model is [name, has_names, datasets_names, bkg]: has_names is FALSE when
\* datasets_names is None, bkg says that the dataset has a background_model
\* and it is this model.  A model name is <<"model", k>> or, for the name
\* "<n>-bkg", <<"bkg", n>>.
NoName    == 0                \* name=None
FreshName == NumNames + 1     \* the name make_name(None) generates

make_name(name_arg) == IF name_arg = NoName THEN FreshName ELSE name_arg

\* The fix-up of one model of the copy, with the rename of the background
\* model left out
copy_model_no_rename(m, old, new) ==
    IF ~m.has_names THEN m
    ELSE [m EXCEPT !.datasets_names =
                       [k \in 1 .. Len(m.datasets_names) |->
                           IF m.datasets_names[k] = old THEN new ELSE m.datasets_names[k]]]

\* The fix-up of one model of the copy (the body of the loop over
\* new._models)
copy_model(m, old, new) ==
    IF ~m.has_names THEN m
    ELSE [m EXCEPT !.datasets_names =
                       [k \in 1 .. Len(m.datasets_names) |->
                           IF m.datasets_names[k] = old THEN new ELSE m.datasets_names[k]],
                   !.name = IF m.bkg THEN <<"bkg", new>> ELSE m.name]

\* Dataset.copy(name): the new dataset (self is a value and stays as it is)
Dataset_copy(self, name_arg) ==
    LET new_name == make_name(name_arg)
    IN  [name |-> new_name,
         has_models |-> self.has_models,
         models |-> IF ~self.has_models THEN self.models
                    ELSE [k \in 1 .. Len(self.models) |->
                             copy_model(self.models[k], self.name, new_name)],
         data |-> self.data]

\* The call self.copy(name): the new dataset, and self after the call.
\* copy.deepcopy shares nothing with self, so the fix-up of the copy's models
\* leaves self and its models as they were.
Dataset_copy_call(self, name_arg) ==
    [new |-> Dataset_copy(self, name_arg), self |-> self]

\* Dataset.stack(other), in place on the dataset
stack(dataset, other) == [dataset EXCEPT !.data = dataset.data \o other.data]

\* Dataset.info_dict(): a summary of the dataset, its name and total counts
info_dict(dataset) ==
    [name |-> dataset.name,
     counts |-> npsum([k \in 1 .. Len(dataset.data) |-> npsum(counts(dataset.data[k]))])]

\* The class of a dataset object
class_of(d) == IF d > NumNames THEN "SpectrumDataset" ELSE "MapDataset"

\* The dataset objects of a collection as values: each owns one background
\* model bound to its name
AsDataset(d) ==
    [name |-> name(d),
     has_models |-> TRUE,
     models |-> <<[name |-> <<"bkg", name(d)>>, has_names |-> TRUE,
                   datasets_names |-> <<name(d)>>, bkg |-> TRUE]>>,
     data |-> <<d>>]

NoDataset == [name |-> NoName, has_models |-> FALSE, models |-> <<>>, data |-> <<>>]

\* ---- Datasets.stack_reduce -----------------------------------------------
\* Datasets.is_all_same_type
is_all_same_type(ds) == Cardinality({class_of(ds[i]) : i \in 1 .. Len(ds)}) = 1

\* The loop of stack_reduce that stacks the members last to first
RECURSIVE stack_loop_reversed(_, _, _)
stack_loop_reversed(dataset, rest, made) ==
    IF rest = <<>> THEN [dataset |-> dataset, calls |-> made]
    ELSE stack_loop_reversed(stack(dataset, AsDataset(rest[Len(rest)])),
                             SubSeq(rest, 1, Len(rest) - 1),
                             Append(made, <<"stack", rest[Len(rest)]>>))

\* The loop of stack_reduce over self[1:]; made lists the copy and stack
\* calls made so far
RECURSIVE stack_loop(_, _, _)
stack_loop(dataset, rest, made) ==
    IF rest = <<>> THEN [dataset |-> dataset, calls |-> made]
    ELSE stack_loop(stack(dataset, AsDataset(Head(rest))), Tail(rest),
                    Append(made, <<"stack", Head(rest)>>))

\* Datasets.stack_reduce(name)
stack_reduce(ds, name_arg) ==
    IF ~is_all_same_type(ds)
    THEN [result |-> "ValueError", dataset |-> NoDataset, calls |-> <<>>]
    ELSE LET r == stack_loop(Dataset_copy(AsDataset(ds[1]), name_arg), Tail(ds),
                             <<<<"copy", ds[1]>>>>)
         IN  [result |-> "ok", dataset |-> r.dataset, calls |-> r.calls]

NameArgs == {NoName, 2}

StackReduce ==
    /\ constructed
    /\ pc = "idle"
    /\ \E name_arg \in NameArgs :
        \E r \in {stack_reduce(datasets, name_arg)} :
            /\ ret' = r.dataset
            /\ calls' = r.calls
            /\ last' = [op |-> "stack_reduce", result |-> r.result, args |-> <<name_arg>>]
    /\ UNCHANGED <<constructed, datasets, pvalue>>

\* ---- Datasets.info_table -------------------------------------------------
\* The loop of info_table over self[1:]
RECURSIVE info_table_loop(_, _, _, _, _)
info_table_loop(stacked, rest, cumulative, rows, made) ==
    IF rest = <<>> THEN [rows |-> rows, calls |-> made]
    ELSE IF cumulative
    THEN info_table_loop(stack(stacked, AsDataset(Head(rest))), Tail(rest), cumulative,
                         Append(rows, info_dict(stack(stacked, AsDataset(Head(rest))))),
                         Append(made, <<"stack", Head(rest)>>))
    ELSE info_table_loop(stacked, Tail(rest), cumulative,
                         Append(rows, info_dict(AsDataset(Head(rest)))), made)

\* Datasets.info_table(cumulative): the rows of the table
info_table(ds, cumulative) ==
    IF ~is_all_same_type(ds)
    THEN [result |-> "ValueError", rows |-> <<>>, calls |-> <<>>]
    ELSE LET stacked == Dataset_copy(AsDataset(ds[1]), name(ds[1]))
             r == info_table_loop(stacked, Tail(ds), cumulative,
                                  <<info_dict(stacked)>>, <<<<"copy", ds[1]>>>>)
         IN  [result |-> "ok", rows |-> r.rows, calls |-> r.calls]

InfoTable ==
    /\ constructed
    /\ pc = "idle"
    /\ \E cumulative \in BOOLEAN :
        \E r \in {info_table(datasets, cumulative)} :
            /\ ret' = r.rows
            /\ calls' = r.calls
            /\ last' = [op |-> "info_table", result |-> r.result, args |-> <<cumulative>>]
    /\ UNCHANGED <<constructed, datasets, pvalue>>

\* ---- Datasets.select_time ------------------------------------------------
\* Times are whole microseconds.  dataset.gti: the good time intervals of a
\* dataset, <<start, stop>> each, in time order.
gti(d) ==
    CASE d = 1 -> <<<<2, 4>>>>
      [] d = 2 -> <<<<5, 6>>, <<8, 10>>>>
      [] d = 3 -> <<<<3, 4>>, <<6, 7>>>>
      [] OTHER -> <<<<d, d + 3>>>>

\* dataset.gti.time_start[0] and dataset.gti.time_stop[-1]
time_start_first(d) == gti(d)[1][1]
time_stop_last(d)   == gti(d)[Len(gti(d))][2]

\* The loop of select_time, with the tolerance left out
RECURSIVE select_time_loop_exact(_, _, _, _, _)
select_time_loop_exact(ds, t_min, t_max, atol, selected) ==
    IF ds = <<>> THEN selected
    ELSE select_time_loop_exact(Tail(ds), t_min, t_max, atol,
            IF time_start_first(Head(ds)) >= t_min /\ time_stop_last(Head(ds)) <= t_max
            THEN Append(selected, Head(ds))
            ELSE selected)

\* The loop of select_time over the datasets still to visit
RECURSIVE select_time_loop(_, _, _, _, _)
select_time_loop(ds, t_min, t_max, atol, selected) ==
    IF ds = <<>> THEN selected
    ELSE select_time_loop(Tail(ds), t_min, t_max, atol,
            IF time_start_first(Head(ds)) >= (t_min - atol)
                 /\ time_stop_last(Head(ds)) <= (t_max + atol)
            THEN Append(selected, Head(ds))
            ELSE selected)

\* Datasets.select_time(t_min, t_max, atol): the _datasets of the Datasets it
\* returns, self.__class__(datasets)
select_time(ds, t_min, t_max, atol) ==
    LET selected == select_time_loop(ds, t_min, t_max, atol, <<>>)
    IN  IF HasDuplicate(selected, <<>>)
        THEN [result |-> "ValueError", datasets |-> <<>>]
        ELSE [result |-> "ok", datasets |-> selected]

TimeMins == {1, 3, 4, 6}
TimeMaxs == {4, 7, 9, 11}
AtolVals == {0, 1}

SelectTime ==
    /\ constructed
    /\ pc = "idle"
    /\ \E t_min \in TimeMins, t_max \in TimeMaxs, atol \in AtolVals :
        \E r \in {select_time(datasets, t_min, t_max, atol)} :
            /\ ret' = r.datasets
            /\ last' = [op |-> "select_time", result |-> r.result,
                        args |-> <<t_min, t_max, atol>>]
    /\ calls' = <<>>
    /\ UNCHANGED <<constructed, datasets, pvalue>>

\* The same calls on a DatasetsActor, which inherits them unchanged: they
\* touch self._datasets and nothing else.
Inherited(r) ==
    /\ constructed
    /\ pc = "idle"
    /\ datasets' = r.ds
    /\ ret' = NoValue
    /\ UNCHANGED <<constructed, last, calls, pvalue>>

ActorInsert  == \E idx \in -MaxIdx .. MaxIdx, v \in Values : Inherited(insert(datasets, idx, v))
ActorAppend  == \E v \in Values : Inherited(append(datasets, v))
ActorSetItem == \E key \in Keys, v \in Values : Inherited(setitem(datasets, key, v))
ActorDelItem == \E key \in Keys : Inherited(delitem(datasets, key))

\* The optimizer sets the parameter value of a contained dataset's model
\* (a model is attached to the datasets its datasets_names lists).
ActorSetParameter ==
    /\ constructed
    /\ pc = "idle"
    /\ \E i \in 1 .. Len(datasets), v \in ParVals :
          pvalue' = [pvalue EXCEPT ![name(datasets[i])] = v]
    /\ ret' = NoValue
    /\ UNCHANGED <<constructed, datasets, last, calls>>

(***************************************************************************)
(* DatasetsActor.  A worker is a ray actor (MapDatasetActor): it holds a   *)
(* private copy of one dataset and runs the tasks submitted to it one at a *)
(* time, in the order the local process submitted them.                    *)
(***************************************************************************)
Workers == 1 .. NumNames

\* The Datasets a DatasetsActor is made from, and the datasets the actors
\* handed to from_actors hold.
ActorInputs == {<<>>, <<2>>, <<1, 2>>, <<3, 4>>, <<3, 2, 1>>}
HeldInputs  == {<<2>>, <<1, 3>>}

\* DatasetsActor.__init__(datasets): one worker per dataset, in order, each
\* with a copy of the dataset as it is now.
Actor_init ==
    \E ds \in ActorInputs :
        /\ ~constructed
        /\ constructed' = TRUE
        /\ datasets' = ds
        /\ actors' = [i \in 1 .. Len(ds) |-> i]
        /\ wdata' = [w \in Workers |-> IF w <= Len(ds) THEN ds[w] ELSE 0]
        /\ wval' = [w \in Workers |-> IF w <= Len(ds) THEN pvalue[name(ds[w])] ELSE 0]
        /\ UNCHANGED <<last, ret, calls, pvalue, queue, acked, res, pc, args, sent, statSent>>

\* DatasetsActor.from_actors(actors): the actors exist already, each with its
\* dataset and its models; the local datasets are ghosts that carry the
\* workers' names and copies of the workers' models.
from_actors ==
    \E held \in HeldInputs, vals \in [Workers -> ParVals] :
        /\ ~constructed
        /\ \A w \in Workers : w > Len(held) => vals[w] = 0
        /\ constructed' = TRUE
        /\ actors' = [i \in 1 .. Len(held) |-> i]
        /\ wdata' = [w \in Workers |-> IF w <= Len(held) THEN held[w] ELSE 0]
        /\ wval' = vals
        /\ datasets' = [i \in 1 .. Len(held) |-> -name(held[i])]
        /\ pvalue' = [n \in Names |->
                          IF \E i \in 1 .. Len(held) : n = name(held[i])
                          THEN vals[CHOOSE i \in 1 .. Len(held) : n = name(held[i])]
                          ELSE pvalue[n]]
        /\ UNCHANGED <<last, ret, calls, queue, acked, res, pc, args, sent, statSent>>

\* zip(self._actors, args) stops at the shorter of the two
ZipLen == Min(Len(actors), Len(args))

\* stat_sum, line 568: args = [d...get_parameter_values() for d in self._datasets]
stat_sum_begin ==
    /\ constructed
    /\ pc = "idle"
    /\ args' = [i \in 1 .. Len(datasets) |-> pvalue[name(datasets[i])]]
    /\ pc' = "push"
    /\ sent' = 0
    /\ acked' = {}
    /\ statSent' = {}
    /\ res' = [w \in Workers |-> NoValue]
    /\ ret' = NoValue
    /\ UNCHANGED <<constructed, datasets, last, calls, pvalue, actors, wdata, wval, queue>>

\* a push that sends every worker the values of the first dataset
stat_sum_push_first_arg ==
    /\ pc = "push"
    /\ sent < ZipLen
    /\ queue' = [queue EXCEPT ![actors[sent + 1]] =
                     Append(@, [kind |-> "set", v |-> args[1]])]
    /\ sent' = sent + 1
    /\ UNCHANGED <<dsVars, actors, wdata, wval, acked, res, pc, args, statSent>>

\* stat_sum, line 570: one a.set_parameter_values.remote(arg) of the list
stat_sum_push ==
    /\ pc = "push"
    /\ sent < ZipLen
    /\ queue' = [queue EXCEPT ![actors[sent + 1]] =
                     Append(@, [kind |-> "set", v |-> args[sent + 1]])]
    /\ sent' = sent + 1
    /\ UNCHANGED <<dsVars, actors, wdata, wval, acked, res, pc, args, statSent>>

\* stat_sum, line 569: ray.get returns once every submitted future resolved
AllAcked == \A i \in 1 .. ZipLen : actors[i] \in acked

stat_sum_acks ==
    /\ pc = "push"
    /\ sent = ZipLen
    /\ AllAcked
    /\ pc' = "dispatch"
    /\ sent' = 0
    /\ UNCHANGED <<dsVars, actors, wdata, wval, queue, acked, res, args, statSent>>

\* stat_sum, line 573: one a.stat_sum.remote() of the list
stat_sum_dispatch ==
    /\ pc = "dispatch"
    /\ sent < Len(actors)
    /\ queue' = [queue EXCEPT ![actors[sent + 1]] = Append(@, [kind |-> "stat", v |-> 0])]
    /\ statSent' = statSent \cup {actors[sent + 1]}
    /\ sent' = sent + 1
    /\ UNCHANGED <<dsVars, actors, wdata, wval, acked, res, pc, args>>

\* stat_sum, lines 573-574: ray.get returns the results in the order of the
\* list, whatever the order they were computed in; np.sum adds them.
stat_sum_return ==
    /\ pc = "dispatch"
    /\ sent = Len(actors)
    /\ \A i \in 1 .. Len(actors) : res[actors[i]] # NoValue
    /\ ret' = npsum([i \in 1 .. Len(actors) |-> res[actors[i]]])
    /\ pc' = "idle"
    /\ UNCHANGED <<constructed, datasets, last, calls, pvalue, actors, wdata, wval, queue,
                   acked, res, args, sent, statSent>>

\* A worker runs the task at the head of its mailbox.
worker_run(w) ==
    /\ queue[w] # <<>>
    /\ queue' = [queue EXCEPT ![w] = Tail(@)]
    /\ IF Head(queue[w]).kind = "set"
       THEN /\ wval' = [wval EXCEPT ![w] = Head(queue[w]).v]
            /\ acked' = acked \cup {w}
            /\ UNCHANGED res
       ELSE /\ res' = [res EXCEPT ![w] = Dataset_stat_sum(wdata[w], wval[w])]
            /\ UNCHANGED <<wval, acked>>
    /\ UNCHANGED <<dsVars, actors, wdata, pc, args, sent, statSent>>

WorkerRun == \E w \in Workers : worker_run(w)

(***************************************************************************)
(* Specifications.                                                         *)
(***************************************************************************)
DatasetsInit ==
    /\ constructed = FALSE
    /\ datasets = <<>>
    /\ last = [op |-> "none", result |-> "ok"]
    /\ ret = NoValue
    /\ calls = <<>>
    /\ pvalue = [n \in Names |-> 0]

ActorIdle ==
    /\ actors = <<>>
    /\ wdata = [w \in Workers |-> 0]
    /\ wval = [w \in Workers |-> 0]
    /\ queue = [w \in Workers |-> <<>>]
    /\ acked = {}
    /\ res = [w \in Workers |-> NoValue]
    /\ pc = "idle"
    /\ args = <<>>
    /\ sent = 0
    /\ statSent = {}

CovIdle ==
    /\ pool = <<>>
    /\ data = <<>>
    /\ cop = "none"
    /\ carg = <<>>
    /\ sub = <<>>
    /\ covar_list = <<>>
    /\ errors = <<>>

\* A Datasets and the calls on it.
Init == DatasetsInit /\ ActorIdle /\ CovIdle

Next ==
    \/ (Construct /\ UNCHANGED <<actorVars, covVars>>)
    \/ (Insert /\ UNCHANGED <<actorVars, covVars>>)
    \/ (AppendOp /\ UNCHANGED <<actorVars, covVars>>)
    \/ (Extend /\ UNCHANGED <<actorVars, covVars>>)
    \/ (SetItem /\ UNCHANGED <<actorVars, covVars>>)
    \/ (DelItem /\ UNCHANGED <<actorVars, covVars>>)
    \/ (StatSum /\ UNCHANGED <<actorVars, covVars>>)
    \/ (SelectTime /\ UNCHANGED <<actorVars, covVars>>)
    \/ (StackReduce /\ UNCHANGED <<actorVars, covVars>>)
    \/ (InfoTable /\ UNCHANGED <<actorVars, covVars>>)

Spec == Init /\ [][Next]_vars

\* A DatasetsActor, the sequence calls it inherits, and its workers.
ActorNext ==
    \/ (Actor_init /\ UNCHANGED covVars)
    \/ (from_actors /\ UNCHANGED covVars)
    \/ (ActorInsert /\ UNCHANGED <<actorVars, covVars>>)
    \/ (ActorAppend /\ UNCHANGED <<actorVars, covVars>>)
    \/ (ActorSetItem /\ UNCHANGED <<actorVars, covVars>>)
    \/ (ActorDelItem /\ UNCHANGED <<actorVars, covVars>>)
    \/ (ActorSetParameter /\ UNCHANGED <<actorVars, covVars>>)
    \/ (stat_sum_begin /\ UNCHANGED covVars)
    \/ (stat_sum_push /\ UNCHANGED covVars)
    \/ (stat_sum_acks /\ UNCHANGED covVars)
    \/ (stat_sum_dispatch /\ UNCHANGED covVars)
    \/ (stat_sum_return /\ UNCHANGED covVars)
    \/ (WorkerRun /\ UNCHANGED covVars)

ActorSpec == Init /\ [][ActorNext]_vars

(***************************************************************************)
(* Covariance.  A matrix is a sequence of rows; a parameter is a number,   *)
(* its identity.  A Covariance value is [parameters, data].                *)
(***************************************************************************)
MaxError == 1   \* parameter errors are 0 .. MaxError

ATOL     == 1        \* numpy.allclose: atol = 1e-8, the unit of the values
RTOL_INV == 100000   \* numpy.allclose: rtol = 1e-5 = 1 / RTOL_INV

ErrVals  == 0 .. MaxError
CovVals  == {200000, 200003}   \* the entries of the matrices handed in: 2e-3
                               \* and a value within tolerance of it
CovPool  == <<1, 2, 3>>        \* the parameters of the Covariance C
Params   == {1, 2, 3, 4}       \* parameter 4 is in no pool of C

NoCov == [parameters |-> <<>>, data |-> <<>>]

Abs(x) == IF x < 0 THEN -x ELSE x

\* np.diag(values)
Diag(v) == [i \in 1 .. Len(v) |-> [j \in 1 .. Len(v) |-> IF i = j THEN v[i] ELSE 0]]

\* Covariance.__init__(parameters, data): without data, the diagonal of the
\* squared parameter errors
NoData == <<>>     \* data=None
Covariance_init(parameters, error, matrix) ==
    [parameters |-> parameters,
     data |-> IF matrix = NoData
              THEN Diag([i \in 1 .. Len(parameters) |-> error[parameters[i]] * error[parameters[i]]])
              ELSE matrix]

\* Parameters.index(par): 1-based here, 0 when par is not in the pool
\* (list.index raises a value error)
Index(parameters, par) == ListIndex(parameters, par)

\* [self.parameters.index(par) for par in parameters]
Indices(self_parameters, parameters) ==
    [a \in 1 .. Len(parameters) |-> Index(self_parameters, parameters[a])]

\* matrix[np.ix_(idx, idx)]
Ix(matrix, idx) ==
    [a \in 1 .. Len(idx) |-> [b \in 1 .. Len(idx) |-> matrix[idx[a]][idx[b]]]]

\* np.allclose(a, b): |a - b| <= atol + rtol * |b| in every entry.  The
\* left side is a whole number of units, so it is at most atol + rtol * |b|
\* exactly when it is at most the integer part of that.
allclose(a, b) ==
    \A i \in 1 .. Len(a) : \A j \in 1 .. Len(a[i]) :
        Abs(a[i][j] - b[i][j]) <= ATOL + (Abs(b[i][j]) \div RTOL_INV)

InIdx(i, idx) == \E a \in 1 .. Len(idx) : idx[a] = i

\* matrix[idx, :] = 0 alone
ZeroRows(matrix, idx) ==
    [i \in 1 .. Len(matrix) |-> [j \in 1 .. Len(matrix[i]) |->
        IF InIdx(i, idx) THEN 0 ELSE matrix[i][j]]]

\* matrix[idx, :] = 0, then matrix[:, idx] = 0
ZeroRowsCols(matrix, idx) ==
    [i \in 1 .. Len(matrix) |-> [j \in 1 .. Len(matrix[i]) |->
        IF InIdx(i, idx) \/ InIdx(j, idx) THEN 0 ELSE matrix[i][j]]]

\* matrix[np.ix_(idx, idx)] = values, for idx without repeats
AssignIx(matrix, idx, values) ==
    [i \in 1 .. Len(matrix) |-> [j \in 1 .. Len(matrix[i]) |->
        IF InIdx(i, idx) /\ InIdx(j, idx)
        THEN values[CHOOSE a \in 1 .. Len(idx) : idx[a] = i][CHOOSE b \in 1 .. Len(idx) : idx[b] = j]
        ELSE matrix[i][j]]]

\* get_subcovariance that returns the leading block of the matrix
get_subcovariance_leading(self, parameters) ==
    LET idx == Indices(self.parameters, parameters)
    IN  IF InIdx(0, idx) THEN [result |-> "ValueError", covariance |-> NoCov]
        ELSE [result |-> "ok",
              covariance |-> Covariance_init(parameters, <<>>,
                                             Ix(self.data, [a \in 1 .. Len(idx) |-> a]))]

\* Covariance.get_subcovariance(parameters) on self = [parameters, data]
get_subcovariance(self, parameters) ==
    LET idx == Indices(self.parameters, parameters)
    IN  IF InIdx(0, idx) THEN [result |-> "ValueError", covariance |-> NoCov]
        ELSE [result |-> "ok",
              covariance |-> Covariance_init(parameters, <<>>, Ix(self.data, idx))]

\* set_subcovariance that writes the block before it clears the rows and
\* columns
set_subcovariance_write_first(self, covar) ==
    LET idx == Indices(self.parameters, covar.parameters)
    IN  IF InIdx(0, idx) THEN [result |-> "ValueError", data |-> self.data]
        ELSE [result |-> "ok",
              data |-> IF ~allclose(Ix(self.data, idx), covar.data)
                       THEN ZeroRowsCols(AssignIx(self.data, idx, covar.data), idx)
                       ELSE AssignIx(self.data, idx, covar.data)]

\* set_subcovariance that never clears the rows and columns
set_subcovariance_never_zero(self, covar) ==
    LET idx == Indices(self.parameters, covar.parameters)
    IN  IF InIdx(0, idx) THEN [result |-> "ValueError", data |-> self.data]
        ELSE [result |-> "ok", data |-> AssignIx(self.data, idx, covar.data)]

\* set_subcovariance that clears the rows and columns whatever the held
\* block is
set_subcovariance_always_zero(self, covar) ==
    LET idx == Indices(self.parameters, covar.parameters)
    IN  IF InIdx(0, idx) THEN [result |-> "ValueError", data |-> self.data]
        ELSE [result |-> "ok",
              data |-> AssignIx(ZeroRowsCols(self.data, idx), idx, covar.data)]

\* Covariance.set_subcovariance(covar) on self = [parameters, data]: the
\* matrix self holds afterwards
set_subcovariance(self, covar) ==
    LET idx == Indices(self.parameters, covar.parameters)
    IN  IF InIdx(0, idx) THEN [result |-> "ValueError", data |-> self.data]
        ELSE LET cleared == IF ~allclose(Ix(self.data, idx), covar.data)
                            THEN ZeroRowsCols(self.data, idx)
                            ELSE self.data
             IN  [result |-> "ok", data |-> AssignIx(cleared, idx, covar.data)]

\* Parameters.from_stack: the pools one after the other, a parameter that
\* several pools share kept once, where it comes first
RECURSIVE Unique(_, _)
Unique(s, seen) ==
    IF s = <<>> THEN seen
    ELSE Unique(Tail(s), IF InSeq(Head(s), seen) THEN seen ELSE Append(seen, Head(s)))

RECURSIVE Chain(_)
Chain(pools) == IF pools = <<>> THEN <<>> ELSE Head(pools) \o Chain(Tail(pools))

Parameters_from_stack(pools) == Unique(Chain(pools), <<>>)

\* from_stack that sets the last entry of the list only
from_stack_loop_last_only(covar, list) ==
    IF list = <<>> THEN covar
    ELSE [parameters |-> covar.parameters,
          data |-> set_subcovariance(covar, list[Len(list)]).data]

\* The loop of from_stack: set_subcovariance of each entry, in list order.
RECURSIVE from_stack_loop(_, _)
from_stack_loop(covar, list) ==
    IF list = <<>> THEN covar
    ELSE from_stack_loop([parameters |-> covar.parameters,
                          data |-> set_subcovariance(covar, Head(list)).data],
                         Tail(list))

\* Covariance.from_stack(covar_list); error maps each parameter to its error the parameters' errors
from_stack(list, error) ==
    LET parameters == Parameters_from_stack([k \in 1 .. Len(list) |-> list[k].parameters])
    IN  from_stack_loop(Covariance_init(parameters, error, NoData), list)

\* Square matrices of side k over the values V
Matrices(k, V) == [1 .. k -> [1 .. k -> V]]

Injective(s) == \A a, b \in 1 .. Len(s) : a # b => s[a] # s[b]

\* The parameter lists handed to get_subcovariance and carried by a
\* sub-covariance: one or two distinct parameters, in any order.
SubParams == {P \in [1 .. 1 -> Params] \cup [1 .. 2 -> Params] : Injective(P)}

\* The sub-covariances handed to set_subcovariance: every matrix over
\* parameters of C's pool, and one matrix over each list with a parameter
\* that is not in the pool (the call is rejected before it reads the matrix).
SubCovs ==
    UNION {{[parameters |-> P, data |-> m] :
                m \in IF \A a \in 1 .. Len(P) : InSeq(P[a], CovPool)
                      THEN Matrices(Len(P), CovVals)
                      ELSE {[i \in 1 .. Len(P) |-> [j \in 1 .. Len(P) |-> 200000]]}} :
           P \in SubParams}

\* C = Covariance(parameters): the state after construction
CovInit ==
    \E error \in [Params -> ErrVals] :
        /\ pool = Covariance_init(CovPool, error, NoData).parameters
        /\ data = Covariance_init(CovPool, error, NoData).data
        /\ cop = "init"
        /\ carg = NoCov
        /\ sub = NoCov
        /\ covar_list = <<>>
        /\ errors = <<>>

\* C.set_subcovariance(covar)
SetSub ==
    \E covar \in SubCovs :
        \E r \in {set_subcovariance([parameters |-> pool, data |-> data], covar)} :
            /\ data' = r.data
            /\ cop' = IF r.result = "ok" THEN "set" ELSE "set_error"
            /\ carg' = IF r.result = "ok" THEN covar
                       ELSE [parameters |-> covar.parameters, data |-> <<>>]
            /\ sub' = IF r.result = "ok"
                      THEN [parameters |-> covar.parameters,
                            data |-> Ix(data, Indices(pool, covar.parameters))]
                      ELSE NoCov
            /\ UNCHANGED <<pool, covar_list, errors>>

\* C.get_subcovariance(parameters).  When the call directly follows a
\* set_subcovariance over the same parameters, carg keeps the matrix that
\* was set.
GetSub ==
    \E P \in SubParams :
        \E r \in {get_subcovariance([parameters |-> pool, data |-> data], P)} :
            /\ sub' = r.covariance
            /\ cop' = IF r.result = "ok" THEN "get" ELSE "get_error"
            /\ carg' = [parameters |-> P,
                        data |-> IF cop = "set" /\ carg.parameters = P THEN carg.data ELSE <<>>]
            /\ UNCHANGED <<pool, data, covar_list, errors>>

CovNext ==
    \/ (SetSub /\ UNCHANGED <<dsVars, actorVars>>)
    \/ (GetSub /\ UNCHANGED <<dsVars, actorVars>>)

\* A Covariance C over CovPool and the calls on it.
CovSpecInit == DatasetsInit /\ ActorIdle /\ CovInit

CovSpec == CovSpecInit /\ [][CovNext]_vars

\* Covariance.from_stack of two sub-covariances over disjoint parameters,
\* two and three of them.  A value of 1 is within tolerance of the variance
\* and of the zero covariance a parameter of error 1 starts with.
StackVals  == {1, 200000}
StackPools == <<<<4, 1>>, <<3, 5, 2>>>>
StackParams == {1, 2, 3, 4, 5}

StackLists ==
    {<<[parameters |-> StackPools[1], data |-> m1], [parameters |-> StackPools[2], data |-> m2]>> :
        m1 \in Matrices(2, StackVals), m2 \in Matrices(3, StackVals)}

StackInit ==
    /\ pool = <<>>
    /\ data = <<>>
    /\ cop = "none"
    /\ carg = NoCov
    /\ sub = NoCov
    /\ covar_list \in StackLists
    /\ errors = <<>>

\* C = Covariance.from_stack(covar_list), the construction of C
FromStack ==
    /\ cop = "none"
    /\ \E error \in [StackParams -> ErrVals] :
        \E r \in {from_stack(covar_list, error)} :
            /\ pool' = r.parameters
            /\ data' = r.data
            /\ cop' = "from_stack"
            /\ errors' = error
            /\ UNCHANGED <<carg, sub, covar_list>>

StackNext == FromStack /\ UNCHANGED <<dsVars, actorVars>>

StackSpecInit == DatasetsInit /\ ActorIdle /\ StackInit

StackSpec == StackSpecInit /\ [][StackNext]_vars

\* Covariance.from_stack of one or two sub-covariances whose parameters may
\* overlap.  A parameter has error 0 or 3 (variance 0 or 9, out of tolerance
\* of each other), and the matrices handed in have these values.
OverlapErrs == {0, 3}
OverlapVals == {0, 9}
OverlapParams == {1, 2, 3}

OverlapPools == {P \in [1 .. 1 -> OverlapParams] \cup [1 .. 2 -> OverlapParams] : Injective(P)}

OverlapCovs ==
    UNION {{[parameters |-> P, data |-> m] : m \in Matrices(Len(P), OverlapVals)} : P \in OverlapPools}

OverlapLists == [1 .. 1 -> OverlapCovs] \cup [1 .. 2 -> OverlapCovs]

OverlapInit ==
    /\ pool = <<>>
    /\ data = <<>>
    /\ cop = "none"
    /\ carg = NoCov
    /\ sub = NoCov
    /\ covar_list \in OverlapLists
    /\ errors = <<>>

\* C = Covariance.from_stack(covar_list), the construction of C
FromStackOverlap ==
    /\ cop = "none"
    /\ \E error \in [OverlapParams -> OverlapErrs] :
        \E r \in {from_stack(covar_list, error)} :
            /\ pool' = r.parameters
            /\ data' = r.data
            /\ cop' = "from_stack"
            /\ errors' = error
            /\ UNCHANGED <<carg, sub, covar_list>>

OverlapNext == FromStackOverlap /\ UNCHANGED <<dsVars, actorVars>>

OverlapSpecInit == DatasetsInit /\ ActorIdle /\ OverlapInit

OverlapSpec == OverlapSpecInit /\ [][OverlapNext]_vars

\* ---- DatasetsActor.stat_sum with workers that fail ------------------------
\* A task that raises resolves its future to an error: for a
\* set_parameter_values task of worker w the mark -w in acked, for a stat_sum
\* task the value Failed in res.  ray.get raises when a future it waits for
\* holds an error; the tasks still queued then stay queued, and their
\* futures belong to no later call (kinds "set_orphan" and "stat_orphan").
Failed     == -2
MaxBacklog == 1    \* a call starts only with at most this many tasks queued per worker

Orphan(task) ==
    [task EXCEPT !.kind = IF task.kind = "set" THEN "set_orphan"
                          ELSE IF task.kind = "stat" THEN "stat_orphan"
                          ELSE task.kind]

\* A worker runs the task at the head of its mailbox, to its end.
worker_run_any(w) ==
    /\ queue[w] # <<>>
    /\ IF Head(queue[w]).kind \in {"set", "stat"}
       THEN worker_run(w)
       ELSE /\ queue' = [queue EXCEPT ![w] = Tail(@)]
            /\ wval' = IF Head(queue[w]).kind = "set_orphan"
                       THEN [wval EXCEPT ![w] = Head(queue[w]).v]
                       ELSE wval
            /\ UNCHANGED <<dsVars, actors, wdata, acked, res, pc, args, sent, statSent>>

\* The task at the head of a worker's mailbox raises.
worker_fail(w) ==
    /\ queue[w] # <<>>
    /\ queue' = [queue EXCEPT ![w] = Tail(@)]
    /\ acked' = IF Head(queue[w]).kind = "set" THEN acked \cup {-w} ELSE acked
    /\ res' = IF Head(queue[w]).kind = "stat" THEN [res EXCEPT ![w] = Failed] ELSE res
    /\ UNCHANGED <<dsVars, actors, wdata, wval, pc, args, sent, statSent>>

WorkerRunAny == \E w \in Workers : worker_run_any(w)
WorkerFail   == \E w \in Workers : worker_fail(w)

\* stat_sum() starts
FailBegin ==
    /\ \A w \in Workers : Len(queue[w]) <= MaxBacklog
    /\ stat_sum_begin

\* ray.get (line 569 or 573) raises: stat_sum() ends with the error
stat_sum_raise ==
    /\ \/ /\ pc = "push"
          /\ sent = ZipLen
          /\ \E i \in 1 .. ZipLen : -actors[i] \in acked
       \/ /\ pc = "dispatch"
          /\ sent = Len(actors)
          /\ \E i \in 1 .. Len(actors) : res[actors[i]] = Failed
    /\ pc' = "idle"
    /\ ret' = NoValue
    /\ last' = [op |-> "stat_sum", result |-> "RayTaskError"]
    /\ queue' = [w \in Workers |-> [k \in 1 .. Len(queue[w]) |-> Orphan(queue[w][k])]]
    /\ UNCHANGED <<constructed, datasets, calls, pvalue, actors, wdata, wval, acked, res,
                   args, sent, statSent>>

\* ray.get (line 573) returns: no future holds an error
FailReturn ==
    /\ \A i \in 1 .. Len(actors) : res[actors[i]] # Failed
    /\ stat_sum_return

\* The steps of the local process inside stat_sum()
FailLocal ==
    \/ stat_sum_push
    \/ stat_sum_acks
    \/ stat_sum_dispatch
    \/ FailReturn
    \/ stat_sum_raise

FailNext ==
    \/ (Actor_init /\ UNCHANGED covVars)
    \/ (ActorDelItem /\ UNCHANGED <<actorVars, covVars>>)
    \/ (FailBegin /\ UNCHANGED covVars)
    \/ (stat_sum_push /\ UNCHANGED covVars)
    \/ (stat_sum_acks /\ UNCHANGED covVars)
    \/ (stat_sum_dispatch /\ UNCHANGED covVars)
    \/ (FailReturn /\ UNCHANGED covVars)
    \/ (stat_sum_raise /\ UNCHANGED covVars)
    \/ (WorkerRunAny /\ UNCHANGED covVars)
    \/ (WorkerFail /\ UNCHANGED covVars)

\* Every worker responds in the end (it runs or fails the task at the head of
\* its mailbox), and the local process does not stop inside stat_sum().
FailSpec ==
    /\ Init
    /\ [][FailNext]_vars
    /\ WF_vars(FailLocal /\ UNCHANGED covVars)
    /\ \A w \in Workers : WF_vars((worker_run_any(w) \/ worker_fail(w)) /\ UNCHANGED covVars)

\* ---- The shape of the stored matrix --------------------------------------
\* value.shape of a matrix with at least one row
Shape(m) == <<Len(m), Len(m[1])>>

\* Covariance.shape
Covariance_shape(parameters) == <<Len(parameters), Len(parameters)>>

\* The data setter on self = [parameters, data]: the matrix self holds
\* afterwards
data_setter(self, value) ==
    IF Shape(value) # Covariance_shape(self.parameters)
    THEN [result |-> "ValueError", data |-> self.data]
    ELSE [result |-> "ok", data |-> value]

\* set_subcovariance on a stored matrix of any shape: numpy raises an index
\* error at the first read when a position is beyond the matrix.
set_subcovariance_on(self, covar) ==
    LET idx == Indices(self.parameters, covar.parameters)
    IN  IF InIdx(0, idx) THEN [result |-> "ValueError", data |-> self.data]
        ELSE IF \E a \in 1 .. Len(idx) : idx[a] > Len(self.data) \/ idx[a] > Len(self.data[1])
        THEN [result |-> "IndexError", data |-> self.data]
        ELSE set_subcovariance(self, covar)

ShapePool == <<1, 2>>
Sides     == {1, 2, 3}
ShapeVals == {0, 3}

\* The matrices of every shape up to 3 x 3
ShapeMatrices == UNION {[1 .. r -> [1 .. c -> ShapeVals]] : r \in Sides, c \in Sides}

ShapeInit ==
    /\ pool = <<>>
    /\ data = <<>>
    /\ cop = "none"
    /\ carg = [shape |-> <<>>]
    /\ sub = NoCov
    /\ covar_list = <<>>
    /\ errors = <<>>

\* C = Covariance(parameters) or Covariance(parameters, data=matrix)
ShapeNew ==
    /\ cop = "none"
    /\ \E matrix \in {NoData} \cup ShapeMatrices : \E error \in [Params -> ErrVals] :
        \E r \in {Covariance_init(ShapePool, error, matrix)} :
            /\ pool' = r.parameters
            /\ data' = r.data
            /\ cop' = "init"
            /\ carg' = [shape |-> IF matrix = NoData THEN <<>> ELSE Shape(matrix)]
            /\ UNCHANGED <<sub, covar_list, errors>>

\* C.data = value
ShapeAssign ==
    /\ cop # "none"
    /\ \E value \in ShapeMatrices :
        \E r \in {data_setter([parameters |-> pool, data |-> data], value)} :
            /\ data' = r.data
            /\ cop' = IF r.result = "ok" THEN "assign" ELSE "assign_error"
            /\ carg' = [shape |-> Shape(value)]
            /\ UNCHANGED <<pool, sub, covar_list, errors>>

\* C.set_subcovariance(covar), covar over one parameter
ShapeSetSub ==
    /\ cop # "none"
    /\ \E par \in {1, 2, 4}, v \in ShapeVals :
        \E r \in {set_subcovariance_on([parameters |-> pool, data |-> data],
                                       [parameters |-> <<par>>, data |-> <<<<v>>>>])} :
            /\ data' = r.data
            /\ cop' = IF r.result = "ok" THEN "set" ELSE "set_error"
            /\ carg' = [shape |-> <<1, 1>>]
            /\ UNCHANGED <<pool, sub, covar_list, errors>>

ShapeNext ==
    \/ (ShapeNew /\ UNCHANGED <<dsVars, actorVars>>)
    \/ (ShapeAssign /\ UNCHANGED <<dsVars, actorVars>>)
    \/ (ShapeSetSub /\ UNCHANGED <<dsVars, actorVars>>)

ShapeSpecInit == DatasetsInit /\ ActorIdle /\ ShapeInit

ShapeSpec == ShapeSpecInit /\ [][ShapeNext]_vars

\* ---- Covariance.correlation ----------------------------------------------
\* A float is <<"num", n, d>> (the fraction n / d, d > 0), <<"inf", s, 1>>
\* (infinity of sign s) or <<"nan", 0, 1>>.  Variances are perfect squares, so
\* that every square root and quotient of the model is exact.
FLOAT_MAX == 1000000    \* stands for the largest finite float, about 1.8e308

Num(n) == <<"num", n, 1>>
NaN    == <<"nan", 0, 1>>
Inf(s) == <<"inf", s, 1>>

\* np.sqrt of an entry, under np.errstate(invalid="ignore")
Sqrt(v) == IF v < 0 THEN NaN ELSE Num(CHOOSE e \in 0 .. v : e * e = v)

\* np.outer(err, err)[i][j]
Times(x, y) == IF x[1] = "nan" \/ y[1] = "nan" THEN NaN ELSE Num(x[2] * y[2])

\* an entry divided by a float, under np.errstate(divide="ignore")
Over(v, y) ==
    IF y[1] = "nan" THEN NaN
    ELSE IF y[2] = 0 THEN (IF v = 0 THEN NaN ELSE Inf(IF v > 0 THEN 1 ELSE -1))
    ELSE <<"num", v, y[2]>>

\* np.nan_to_num
nan_to_num(x) ==
    IF x[1] = "nan" THEN Num(0)
    ELSE IF x[1] = "inf" THEN Num(x[2] * FLOAT_MAX)
    ELSE x

\* Covariance.correlation of the matrix
correlation(matrix) ==
    LET err == [i \in 1 .. Len(matrix) |-> Sqrt(matrix[i][i])]
    IN  [i \in 1 .. Len(matrix) |-> [j \in 1 .. Len(matrix[i]) |->
            nan_to_num(Over(matrix[i][j], Times(err[i], err[j])))]]

CorrPool == <<1, 2>>
CorrVals == {-1, 0, 1, 4}

\* C = Covariance(CorrPool, data=matrix)
CorrInit ==
    /\ pool = CorrPool
    /\ data \in Matrices(Len(CorrPool), CorrVals)
    /\ cop = "init"
    /\ carg = NoCov
    /\ sub = NoCov
    /\ covar_list = <<>>
    /\ errors = <<>>

\* C.correlation; sub holds the matrix it returns
Correlation ==
    /\ sub' = [parameters |-> pool, data |-> correlation(data)]
    /\ cop' = "correlation"
    /\ UNCHANGED <<pool, data, carg, covar_list, errors>>

CorrNext == Correlation /\ UNCHANGED <<dsVars, actorVars>>

CorrSpecInit == DatasetsInit /\ ActorIdle /\ CorrInit

CorrSpec == CorrSpecInit /\ [][CorrNext]_vars

\* ---- Covariance.from_factor_matrix ---------------------------------------
\* Parameters are given by their frozen flags and scales, in pool order.

\* matrix.ravel() read down the columns
Ravel_columns(m) ==
    [x \in 1 .. Len(m) * Len(m[1]) |-> m[((x - 1) % Len(m)) + 1][((x - 1) \div Len(m)) + 1]]

\* matrix.ravel(): the entries row after row
Ravel(m) ==
    [x \in 1 .. Len(m) * Len(m[1]) |-> m[((x - 1) \div Len(m[1])) + 1][((x - 1) % Len(m[1])) + 1]]

\* free_parameters = ~(mask | mask[:, np.newaxis])
FreeEntry(frozen, i, j) == ~(frozen[j] \/ frozen[i])

\* How many entries of free_parameters are set up to and including (i, j),
\* row after row: the place of (i, j) in a boolean-mask assignment
MaskOrder(frozen, i, j) ==
    Cardinality({e \in (1 .. Len(frozen)) \X (1 .. Len(frozen)) :
                    /\ FreeEntry(frozen, e[1], e[2])
                    /\ (e[1] < i \/ (e[1] = i /\ e[2] <= j))})

\* Covariance._expand_factor_matrix(matrix, parameters); numpy rejects an
\* assignment of a number of values that is neither 1 nor the number of
\* entries the mask selects
expand_factor_matrix(matrix, frozen) ==
    LET npars  == Len(frozen)
        values == Ravel(matrix)
        ntrue  == MaskOrder(frozen, npars, npars)
    IN  IF Len(values) # ntrue /\ Len(values) # 1
        THEN [result |-> "ValueError", matrix |-> <<>>]
        ELSE [result |-> "ok",
              matrix |-> [i \in 1 .. npars |-> [j \in 1 .. npars |->
                  IF FreeEntry(frozen, i, j)
                  THEN values[IF Len(values) = 1 THEN 1 ELSE MaskOrder(frozen, i, j)]
                  ELSE 0]]]

\* Covariance.from_factor_matrix(parameters, matrix): the data of the
\* Covariance it returns
from_factor_matrix(frozen, scale, matrix) ==
    LET npars    == Len(frozen)
        expanded == IF Shape(matrix) # <<npars, npars>>
                    THEN expand_factor_matrix(matrix, frozen)
                    ELSE [result |-> "ok", matrix |-> matrix]
    IN  IF expanded.result # "ok" THEN [result |-> expanded.result, data |-> <<>>]
        ELSE [result |-> "ok",
              data |-> [i \in 1 .. npars |-> [j \in 1 .. npars |->
                           (scale[i] * scale[j]) * expanded.matrix[i][j]]]]

FactorPool   == <<1, 2, 3>>
FactorScales == {1, 3}
FactorVals   == {1, 2}

\* The factor matrices handed in: every square matrix up to the pool size,
\* and two that are not square
FactorMatrices ==
    UNION {Matrices(k, FactorVals) : k \in 1 .. Len(FactorPool)}
        \cup {<<<<1, 2, 1, 2>>>>, <<<<1, 2>>>>}

\* The arguments of the call
FactorInit ==
    /\ pool = <<>>
    /\ data = <<>>
    /\ cop = "none"
    /\ carg \in [frozen : [1 .. Len(FactorPool) -> BOOLEAN],
                 scale : [1 .. Len(FactorPool) -> FactorScales],
                 matrix : FactorMatrices]
    /\ sub = NoCov
    /\ covar_list = <<>>
    /\ errors = <<>>

\* C = Covariance.from_factor_matrix(parameters, matrix)
FromFactorMatrix ==
    /\ cop = "none"
    /\ \E r \in {from_factor_matrix(carg.frozen, carg.scale, carg.matrix)} :
            /\ pool' = IF r.result = "ok" THEN FactorPool ELSE pool
            /\ data' = r.data
            /\ cop' = IF r.result = "ok" THEN "from_factor_matrix" ELSE "from_factor_matrix_error"
            /\ UNCHANGED <<carg, sub, covar_list, errors>>

FactorNext == FromFactorMatrix /\ UNCHANGED <<dsVars, actorVars>>

FactorSpecInit == DatasetsInit /\ ActorIdle /\ FactorInit

FactorSpec == FactorSpecInit /\ [][FactorNext]_vars

\* ---- A Covariance made and changed with symmetric matrices only -----------
SymPool   == <<1, 2, 3>>
SymVals   == {0, 5}
SymScales == {1, 3}

IsSymmetric(m) ==
    \A i, j \in 1 .. Len(m) : Len(m[i]) = Len(m) /\ m[i][j] = m[j][i]

SymMatrices(k) == {m \in Matrices(k, SymVals) : IsSymmetric(m)}

\* The sub-covariances handed to from_stack: over two pools that share a
\* parameter
SymLists ==
    {<<[parameters |-> <<2, 1>>, data |-> m1], [parameters |-> <<3, 2>>, data |-> m2]>> :
        m1 \in SymMatrices(2), m2 \in SymMatrices(2)}

\* The sub-covariances handed to set_subcovariance
SymSubCovs ==
    UNION {{[parameters |-> P, data |-> m] : m \in SymMatrices(Len(P))} : P \in SubParams}

SymInit ==
    /\ pool = <<>>
    /\ data = <<>>
    /\ cop = "none"
    /\ carg = NoCov
    /\ sub = NoCov
    /\ covar_list = <<>>
    /\ errors = <<>>

\* C = Covariance(parameters)
SymNew ==
    /\ cop = "none"
    /\ \E error \in [1 .. Len(SymPool) -> ErrVals] :
        \E r \in {Covariance_init(SymPool, error, NoData)} :
            /\ pool' = r.parameters
            /\ data' = r.data
            /\ cop' = "init"
            /\ UNCHANGED <<carg, sub, covar_list, errors>>

\* C = Covariance.from_stack(list)
SymFromStack ==
    /\ cop = "none"
    /\ \E list \in SymLists, error \in [1 .. Len(SymPool) -> ErrVals] :
        \E r \in {from_stack(list, error)} :
            /\ pool' = r.parameters
            /\ data' = r.data
            /\ cop' = "from_stack"
            /\ UNCHANGED <<carg, sub, covar_list, errors>>

\* C = Covariance.from_factor_matrix(parameters, matrix)
SymFromFactorMatrix ==
    /\ cop = "none"
    /\ \E frozen \in [1 .. Len(SymPool) -> BOOLEAN], scale \in [1 .. Len(SymPool) -> SymScales],
          matrix \in UNION {SymMatrices(k) : k \in 1 .. Len(SymPool)} :
        \E r \in {from_factor_matrix(frozen, scale, matrix)} :
            /\ pool' = IF r.result = "ok" THEN SymPool ELSE pool
            /\ data' = r.data
            /\ cop' = IF r.result = "ok" THEN "from_factor_matrix" ELSE "from_factor_matrix_error"
            /\ UNCHANGED <<carg, sub, covar_list, errors>>

\* C exists
SymBuilt == cop \notin {"none", "from_factor_matrix_error"}

\* C.set_subcovariance(covar)
SymSetSub ==
    /\ SymBuilt
    /\ \E covar \in SymSubCovs :
        \E r \in {set_subcovariance([parameters |-> pool, data |-> data], covar)} :
            /\ data' = r.data
            /\ cop' = IF r.result = "ok" THEN "set" ELSE "set_error"
            /\ carg' = IF r.result = "ok" THEN covar
                       ELSE [parameters |-> covar.parameters, data |-> <<>>]
            /\ sub' = IF r.result = "ok"
                      THEN [parameters |-> covar.parameters,
                            data |-> Ix(data, Indices(pool, covar.parameters))]
                      ELSE NoCov
            /\ UNCHANGED <<pool, covar_list, errors>>

\* C.get_subcovariance(parameters)
SymGetSub == SymBuilt /\ GetSub

SymNext ==
    \/ (SymNew /\ UNCHANGED <<dsVars, actorVars>>)
    \/ (SymFromStack /\ UNCHANGED <<dsVars, actorVars>>)
    \/ (SymFromFactorMatrix /\ UNCHANGED <<dsVars, actorVars>>)
    \/ (SymSetSub /\ UNCHANGED <<dsVars, actorVars>>)
    \/ (SymGetSub /\ UNCHANGED <<dsVars, actorVars>>)

SymSpecInit == DatasetsInit /\ ActorIdle /\ SymInit

SymSpec == SymSpecInit /\ [][SymNext]_vars

\* ---- Dataset.copy on any dataset -----------------------------------------
CopyNames == {1, 2, 3}

\* The models a dataset may carry
CopyModels ==
    {[name |-> n, has_names |-> h, datasets_names |-> dn, bkg |-> b] :
        n \in {<<"model", 1>>, <<"bkg", 1>>}, h \in BOOLEAN,
        dn \in SeqsUpTo(CopyNames, 2), b \in BOOLEAN}

\* The datasets copy() is called on: named 1, without models, or with up to
\* two models of which at most one is its background model
CopyDatasets ==
    {[name |-> 1, has_models |-> FALSE, models |-> <<>>, data |-> <<1>>]}
    \cup {[name |-> 1, has_models |-> TRUE, models |-> ms, data |-> <<1>>] :
            ms \in {x \in SeqsUpTo(CopyModels, 2) :
                      /\ \A k \in 1 .. Len(x) : ~x[k].has_names => x[k].datasets_names = <<>>
                      /\ \A j, k \in 1 .. Len(x) : (x[j].bkg /\ x[k].bkg) => j = k}}

\* A dataset and the name argument of the call to come
CopyInit ==
    /\ constructed = FALSE
    /\ datasets = <<>>
    /\ last \in [op : {"none"}, result : {"ok"}, args : CopyDatasets \X {NoName, 1, 2}]
    /\ ret = [new |-> NoDataset, self |-> NoDataset]
    /\ calls = <<>>
    /\ pvalue = [n \in Names |-> 0]

\* new = self.copy(name)
DatasetCopy ==
    /\ last.op = "none"
    /\ ret' = Dataset_copy_call(last.args[1], last.args[2])
    /\ last' = [last EXCEPT !.op = "copy"]
    /\ UNCHANGED <<constructed, datasets, calls, pvalue>>

CopyNext == DatasetCopy /\ UNCHANGED <<actorVars, covVars>>

CopySpecInit == CopyInit /\ ActorIdle /\ CovIdle

CopySpec == CopySpecInit /\ [][CopyNext]_vars

(***************************************************************************)
(* Claims about Datasets (specification Spec).                             *)
(***************************************************************************)
NoDuplicates(s) == \A i, j \in 1 .. Len(s) : i # j => s[i] # s[j]

\* C1: in every state reached by constructing a Datasets from datasets with
\* pairwise distinct names and then calling insert, append, extend,
\* __setitem__ and __delitem__ in any order, whether a call succeeds or
\* fails, Datasets.names has no duplicates.
C1_NamesUnique == constructed => NoDuplicates(names(datasets))

\* A full collection on which a call was just rejected for a duplicate name.
C1_Witness ==
    /\ constructed
    /\ Len(datasets) = NumNames
    /\ last.op \in {"insert", "append", "extend", "setitem"}
    /\ last.result = "ValueError"

\* C2: an insert or __setitem__ call that is rejected, with a value error
\* (the name is already in names) or a type error (the value is no Dataset),
\* leaves the collection as it was: the same references in the same order.
C2_RejectedLeavesUnchanged ==
    [][(last'.op \in {"insert", "setitem"} /\ last'.result \in {"ValueError", "TypeError"})
          => datasets' = datasets]_vars

\* A __setitem__ on a collection of two or more that was rejected for the name.
C2_Witness ==
    /\ Len(datasets) >= 2
    /\ last.op = "setitem"
    /\ last.result = "ValueError"

\* The sum of the first n entries of f.
RECURSIVE SumTo(_, _)
SumTo(f, n) == IF n = 0 THEN 0 ELSE SumTo(f, n - 1) + f[n]

\* The statistic of each member at the current parameter values.
MemberStats == [i \in 1 .. Len(datasets) |-> Dataset_stat_sum(datasets[i], pvalue[name(datasets[i])])]

\* C3: Datasets.stat_sum() returns the sum of stat_sum() over the contained
\* datasets, each called exactly once and in insertion order (members with
\* statistic sums 1.0, 2.5 and 0.75 give 4.25), and the call changes neither
\* the collection nor any dataset.
C3_StatSumIsSum ==
    /\ [](last.op = "stat_sum" =>
            /\ ret = SumTo(MemberStats, Len(datasets))
            /\ calls = datasets
            /\ (MemberStats = <<4, 10, 3>> => ret = 17))
    /\ [][last'.op = "stat_sum" => (datasets' = datasets /\ pvalue' = pvalue)]_vars

\* stat_sum() has returned on the three members of the example.
C3_Witness == last.op = "stat_sum" /\ MemberStats = <<4, 10, 3>> /\ ret = 17

(***************************************************************************)
(* Claims about DatasetsActor (specification ActorSpec).                   *)
(***************************************************************************)
StatTaskOut == \E w \in Workers : w \in statSent \/ res[w] # NoValue

\* C4: in every execution of DatasetsActor.stat_sum(), no worker is sent its
\* stat_sum request before every worker has acknowledged the
\* set_parameter_values push of that same call.
C4_AllWorkersAckedBeforeStat ==
    (pc # "idle" /\ StatTaskOut) => \A i \in 1 .. Len(actors) : actors[i] \in acked

\* The barrier the code does keep: no stat_sum request goes out before every
\* push that was submitted (to the workers zip pairs with a dataset) is
\* acknowledged and applied.
PushBarrier ==
    (pc # "idle" /\ StatTaskOut) =>
        /\ AllAcked
        /\ \A w \in Workers : \A k \in 1 .. Len(queue[w]) : queue[w][k].kind # "set"

\* Worker i holds a copy of local dataset i, for every i.
WorkersHoldCopies ==
    /\ Len(actors) = Len(datasets)
    /\ \A i \in 1 .. Len(actors) : wdata[actors[i]] = datasets[i]

\* C5: with workers that hold copies of the local datasets, stat_sum()
\* returns the same value under every interleaving of the workers: the sum,
\* in worker order, of each worker's statistic at the parameter values the
\* local datasets had when the call started, which is what the serial
\* Datasets.stat_sum() returns for the same datasets and values.
C5_ParallelEqualsSerial ==
    (pc = "idle" /\ ret # NoValue /\ WorkersHoldCopies) =>
        /\ ret = SumTo([i \in 1 .. Len(actors) |-> Dataset_stat_sum(wdata[actors[i]], args[i])],
                       Len(actors))
        /\ ret = Datasets_stat_sum(datasets, pvalue).stat_sum

\* stat_sum() has returned for three workers, after a parameter was changed.
C5_Witness ==
    /\ pc = "idle"
    /\ ret # NoValue
    /\ WorkersHoldCopies
    /\ Len(actors) = 3
    /\ \E i, j \in 1 .. Len(args) : args[i] # args[j]

\* C6: in every reachable state of a DatasetsActor, after __init__ or
\* from_actors and after any sequence of the inherited insert, append,
\* __setitem__ and __delitem__, there are as many workers as local datasets
\* and worker i holds the dataset named names[i].
C6_WorkersMatchDatasets ==
    constructed =>
        /\ Len(actors) = Len(datasets)
        /\ \A i \in 1 .. Len(actors) : name(wdata[actors[i]]) = names(datasets)[i]

(***************************************************************************)
(* Claims about Covariance (specification CovSpec).                        *)
(***************************************************************************)
\* The call that just ended was C.set_subcovariance(carg) and it succeeded.
\* (In a step, cop' = "set" says the step is such a call; data is then the
\* matrix C held before it and data' the matrix it holds after it.)
SetDone == cop = "set"

\* Entry (i, j) joins a parameter at one of the positions idx with a
\* parameter at none of them.
Cross(idx, i, j) == InIdx(i, idx) # InIdx(j, idx)

\* C7: for every Covariance C and every sub-covariance S over a list P of
\* C's parameters without repeats, in any order, C.get_subcovariance(P)
\* called after C.set_subcovariance(S) returns S's matrix, entry for entry.
C7_SetThenGet ==
    [][(cop = "set" /\ cop' = "get" /\ carg'.parameters = carg.parameters)
          => sub'.data = carg.data]_vars

\* get_subcovariance returned, right after a set over the same two
\* parameters, listed against the pool's order, a matrix that is not
\* symmetric.
C7_Witness ==
    /\ cop = "get"
    /\ carg.data # <<>>
    /\ Len(carg.parameters) = 2
    /\ Index(pool, carg.parameters[1]) > Index(pool, carg.parameters[2])
    /\ carg.data[1][2] # carg.data[2][1]
    /\ sub.data = carg.data

\* C8: after C.set_subcovariance(S) where S's values differ in at least one
\* entry from the sub-block C held for S's parameters before the call, every
\* entry C[i][j] with exactly one of i, j among S's parameters is exactly 0.
C8_ChangedBlockClearsCross ==
    [][cop' = "set" =>
          \A idx \in {Indices(pool, carg'.parameters)} :
              Ix(data, idx) # carg'.data
                  => \A i, j \in 1 .. Len(pool) : Cross(idx, i, j) => data'[i][j] = 0]_vars

\* C8, amended: after C.set_subcovariance(S) where the sub-block C held for
\* S's parameters before the call is not numpy.allclose to S's values, every
\* entry C[i][j] with exactly one of i, j among S's parameters is exactly 0.
C8_NotCloseClearsCross ==
    [][cop' = "set" =>
          \A idx \in {Indices(pool, carg'.parameters)} :
              ~allclose(Ix(data, idx), carg'.data)
                  => \A i, j \in 1 .. Len(pool) : Cross(idx, i, j) => data'[i][j] = 0]_vars

\* A set over one parameter whose held variance was a set value out of
\* tolerance of the new one, on a C that keeps a covariance between the
\* other two parameters.
C8_Witness ==
    /\ SetDone
    /\ Len(carg.parameters) = 1
    /\ ~allclose(sub.data, carg.data)
    /\ \A i, j \in 1 .. Len(pool) :
          Cross(Indices(pool, carg.parameters), i, j) => data[i][j] = 0
    /\ \E i, j \in 1 .. Len(pool) : i # j /\ data[i][j] # 0

C10_StackIsBlockDiagonal ==
    cop = "from_stack" =>
        /\ pool = covar_list[1].parameters \o covar_list[2].parameters
        /\ Len(data) = 5
        /\ \A i \in 1 .. 5 : Len(data[i]) = 5
        /\ Ix(data, <<1, 2>>) = covar_list[1].data
        /\ Ix(data, <<3, 4, 5>>) = covar_list[2].data
        /\ \A i, j \in 1 .. 5 : ((i <= 2) # (j <= 2)) => data[i][j] = 0

\* from_stack has returned for parameters that all have an error, a first
\* matrix within tolerance of the matrix of the errors, and a second matrix
\* that is not.
C10_Witness ==
    /\ cop = "from_stack"
    /\ \A p \in StackParams : errors[p] = 1
    /\ covar_list[1].data = <<<<1, 1>>, <<1, 1>>>>
    /\ covar_list[2].data[1][2] = 200000
    /\ covar_list[2].data[2][1] = 1

\* The matrix the stacking of the list gives when it starts from the
\* all-zero matrix over the stacked pool.
StackFromZero(list) ==
    LET parameters == Parameters_from_stack([k \in 1 .. Len(list) |-> list[k].parameters])
        n == Len(parameters)
    IN  from_stack_loop([parameters |-> parameters,
                         data |-> [i \in 1 .. n |-> [j \in 1 .. n |-> 0]]], list).data

\* C11: for every list of sub-covariances, with disjoint or overlapping
\* parameter sets, Covariance.from_stack(covar_list) produces the same matrix
\* as starting from the all-zero NxN matrix over the stacked pool and
\* applying set_subcovariance once per list element in list order.
C11_StackEqualsFromZero ==
    cop = "from_stack" => data = StackFromZero(covar_list)

(***************************************************************************)
(* Claims about the shape of the stored matrix (specification ShapeSpec).  *)
(***************************************************************************)
\* C12: in every reachable state of a Covariance, after construction with or
\* without an explicit matrix and after any sequence of data assignments,
\* accepted or rejected, and set_subcovariance calls, the stored matrix is
\* square with side equal to the pool size; a matrix of any other shape is
\* rejected with a value error and the stored matrix stays as it was.
C12_MatrixIsSquare ==
    /\ [](cop # "none" => Shape(data) = Covariance_shape(pool))
    /\ [][(cop' \in {"init", "assign"} /\ carg'.shape # <<>>)
             => carg'.shape = Covariance_shape(pool')]_vars
    /\ [][cop' = "assign_error" => data' = data]_vars

(***************************************************************************)
(* Claims about Covariance.correlation (specification CorrSpec).           *)
(***************************************************************************)
\* The float is the number 1 / the number 0.
IsOne(x)  == x[1] = "num" /\ x[2] = x[3]
IsZero(x) == x[1] = "num" /\ x[2] = 0

\* C13: for every covariance matrix, Covariance.correlation has entry [i][i]
\* equal to 1 wherever variance_i > 0, and every entry [i][j] with
\* variance_i = 0 or variance_j = 0, whose division yields NaN or infinity
\* whatever the covariance entry [i][j] is, is reported as 0.
C13_CorrelationEntries ==
    cop = "correlation" =>
        /\ \A i \in 1 .. Len(data) : data[i][i] > 0 => IsOne(sub.data[i][i])
        /\ \A i, j \in 1 .. Len(data) :
              (data[i][i] = 0 \/ data[j][j] = 0) => IsZero(sub.data[i][j])

(***************************************************************************)
(* Claims about from_factor_matrix (specification FactorSpec).             *)
(***************************************************************************)
\* The free parameters among the first k, counted: the rank of a free k.
Rank(frozen, k) == Cardinality({x \in 1 .. k : ~frozen[x]})

\* C14: from_factor_matrix returns an NxN matrix R with: when M is already
\* NxN, R[i][j] = scale_i * scale_j * M[i][j]; when M is the reduced matrix
\* over the free parameters, in pool order, R[i][j] = scale_i * scale_j *
\* M[r(i)][r(j)] if parameters i and j are both free, r(k) being the rank of
\* k among the free parameters, and R[i][j] = 0 if i or j is frozen.
C14_FactorMatrix ==
    LET n == Len(FactorPool)
        M == carg.matrix
        k == Rank(carg.frozen, n)
    IN  /\ (cop = "none" /\ Shape(M) \in {<<n, n>>, <<k, k>>}) =>
              from_factor_matrix(carg.frozen, carg.scale, M).result = "ok"
        /\ cop = "from_factor_matrix" =>
              /\ Shape(data) = <<n, n>>
              /\ Shape(M) = <<n, n>> =>
                    \A i, j \in 1 .. n : data[i][j] = carg.scale[i] * carg.scale[j] * M[i][j]
              /\ (Shape(M) # <<n, n>> /\ Shape(M) = <<k, k>>) =>
                    \A i, j \in 1 .. n :
                        data[i][j] = IF ~carg.frozen[i] /\ ~carg.frozen[j]
                                     THEN carg.scale[i] * carg.scale[j]
                                              * M[Rank(carg.frozen, i)][Rank(carg.frozen, j)]
                                     ELSE 0

\* from_factor_matrix has returned for a reduced matrix that is not
\* symmetric, over the first and the last parameter, which differ in scale.
C14_Witness ==
    /\ cop = "from_factor_matrix"
    /\ carg.frozen = <<FALSE, TRUE, FALSE>>
    /\ Shape(carg.matrix) = <<2, 2>>
    /\ carg.matrix[1][2] # carg.matrix[2][1]
    /\ carg.scale[1] # carg.scale[3]
    /\ data[1][3] # data[3][1]

(***************************************************************************)
(* Claims about the queries of Datasets (specification Spec).              *)
(***************************************************************************)
\* The dataset lies within [t_min - atol, t_max + atol].
WithinTime(d, a) == time_start_first(d) >= a[1] - a[3] /\ time_stop_last(d) <= a[2] + a[3]

\* C15: select_time(t_min, t_max, atol) returns a new collection containing
\* exactly the members whose first interval start is >= t_min - atol and
\* whose last interval stop is <= t_max + atol, in their original order and
\* as the same dataset references; a member that crosses either bound by
\* more than atol is excluded, and the original collection is unchanged.
C15_SelectTime ==
    /\ [](last.op = "select_time" =>
            /\ last.result = "ok"
            /\ \A d \in Objs : InSeq(d, ret) <=> (InSeq(d, datasets) /\ WithinTime(d, last.args))
            /\ \A i, j \in 1 .. Len(ret) :
                  i < j => ListIndex(datasets, ret[i]) < ListIndex(datasets, ret[j]))
    /\ [][last'.op = "select_time" => datasets' = datasets]_vars

\* select_time kept two of three members, one of them only by the tolerance,
\* and left out one that crosses t_max by more than the tolerance.
C15_Witness ==
    /\ last.op = "select_time"
    /\ Len(datasets) = 3
    /\ Len(ret) = 2
    /\ last.args[3] = 1
    /\ \E i \in 1 .. 2 : time_start_first(ret[i]) = last.args[1] - 1
    /\ \E i \in 1 .. 3 : time_stop_last(datasets[i]) > last.args[2] + 1

\* C16: stack_reduce on a collection whose members are not all of one type
\* fails with a value error before any copy or stack operation has happened;
\* on a same-type collection it returns a deep copy of the first member onto
\* which members 2..n have been stacked, each exactly once and in insertion
\* order.
C16_StackReduce ==
    /\ [](last.op = "stack_reduce" =>
            /\ (\E i, j \in 1 .. Len(datasets) : class_of(datasets[i]) # class_of(datasets[j]))
                  => (last.result = "ValueError" /\ calls = <<>>)
            /\ (datasets # <<>> /\ \A i, j \in 1 .. Len(datasets) :
                                      class_of(datasets[i]) = class_of(datasets[j]))
                  => /\ last.result = "ok"
                     /\ ret.data = datasets
                     /\ ret.name = make_name(last.args[1])
                     /\ calls = [k \in 1 .. Len(datasets) |->
                                    <<IF k = 1 THEN "copy" ELSE "stack", datasets[k]>>])
    /\ [][last'.op = "stack_reduce" => datasets' = datasets]_vars

\* stack_reduce has returned the stack of three members of one type.
C16_Witness ==
    /\ last.op = "stack_reduce"
    /\ last.result = "ok"
    /\ Len(datasets) = 3
    /\ Len(ret.data) = 3
    /\ ret.data[2] # ret.data[3]

\* The datasets are of more than one type.
MixedTypes == \E i, j \in 1 .. Len(datasets) : class_of(datasets[i]) # class_of(datasets[j])

\* The total counts of the first k datasets.
CountsTo(k) == SumTo([i \in 1 .. Len(datasets) |-> npsum(counts(datasets[i]))], k)

\* C17: info_table returns exactly one row per dataset in insertion order:
\* with cumulative set, row k is the info_dict of the running stack of
\* datasets 0..k and mixed types give a value error; with cumulative not set,
\* row k is dataset k's own info_dict, with no same-type precondition, so a
\* mixed-type collection yields its rows instead of an error.
C17_InfoTable ==
    (last.op = "info_table" /\ datasets # <<>>) =>
        IF last.args[1]
        THEN IF MixedTypes THEN last.result = "ValueError"
             ELSE /\ last.result = "ok"
                  /\ ret = [k \in 1 .. Len(datasets) |->
                               [name |-> name(datasets[1]), counts |-> CountsTo(k)]]
        ELSE /\ last.result = "ok"
             /\ ret = [k \in 1 .. Len(datasets) |-> info_dict(AsDataset(datasets[k]))]

(***************************************************************************)
(* Claims about Dataset.copy (specification CopySpec).                     *)
(***************************************************************************)
\* The copy carries the new name; every datasets_names entry of its models
\* that was the old name is the new name and every other entry is kept; the
\* original is as it was.
CopyRewires(self, new, new_name) ==
    /\ new.name = new_name
    /\ new.data = self.data
    /\ new.has_models = self.has_models
    /\ Len(new.models) = Len(self.models)
    /\ \A k \in 1 .. Len(self.models) :
          /\ new.models[k].has_names = self.models[k].has_names
          /\ new.models[k].bkg = self.models[k].bkg
          /\ Len(new.models[k].datasets_names) = Len(self.models[k].datasets_names)
          /\ \A j \in 1 .. Len(self.models[k].datasets_names) :
                new.models[k].datasets_names[j] =
                    IF self.models[k].datasets_names[j] = self.name THEN new_name
                    ELSE self.models[k].datasets_names[j]
    /\ ret.self = self

Returned == constructed /\ pc = "idle" /\ ret # NoValue

\* C19: stat_sum() is all-or-nothing over its workers: it returns a value
\* only after every worker has acknowledged the parameter push and delivered
\* its statistic; when a worker's task failed the call does not return a
\* value, so no sum over only some workers is returned; and if every worker
\* eventually responds, the call eventually ends.
C19_AllOrNothing ==
    /\ [](Returned =>
            /\ \A i \in 1 .. Len(actors) :
                  actors[i] \in acked /\ res[actors[i]] \notin {NoValue, Failed}
            /\ \A w \in Workers : -w \notin acked /\ res[w] # Failed
            /\ ret = SumTo([i \in 1 .. Len(actors) |-> res[actors[i]]], Len(actors)))
    /\ (pc # "idle") ~> (pc = "idle")

(***************************************************************************)
(* Claims about Datasets.__setitem__ (specification Spec).                 *)
(***************************************************************************)
\* C20: Datasets.__setitem__(key, ds) tests ds.name against the names of all
\* the datasets currently held, the one at position key included: whenever a
\* held dataset has that name the call is rejected with a value error and
\* the collection is left unchanged, also when the only dataset of that name
\* is the one that would have been replaced.
C20_SetItemChecksAllNames ==
    [][(/\ last'.op = "setitem"
        /\ isDataset(last'.args[2])
        /\ InSeq(name(last'.args[2]), names(datasets)))
          => (last'.result = "ValueError" /\ datasets' = datasets)]_vars

\* A __setitem__ at a position whose dataset is another object of the same
\* name as the new one was rejected, and the old dataset is still there.
C20_Witness ==
    /\ last.op = "setitem"
    /\ last.result = "ValueError"
    /\ last.args[1].kind = "int"
    /\ Position(last.args[1].a, Len(datasets)) # 0
    /\ name(datasets[Position(last.args[1].a, Len(datasets))]) = name(last.args[2])
    /\ datasets[Position(last.args[1].a, Len(datasets))] # last.args[2]

(***************************************************************************)
(* The frame of set_subcovariance (specification CovSpec).                 *)
(***************************************************************************)
\* C21: C.set_subcovariance(S) never changes an entry C[i][j] with both i
\* and j outside S's parameters and never changes C's pool; when the block C
\* held for S's parameters is numpy.allclose to S's values, it changes no
\* entry outside the block either, so the cross-terms with the other
\* parameters are kept; a rejected call changes nothing.
C21_SetSubFrame ==
    /\ [][cop' = "set" =>
            \A idx \in {Indices(pool, carg'.parameters)} :
              /\ pool' = pool
              /\ \A i, j \in 1 .. Len(pool) :
                    (~InIdx(i, idx) /\ ~InIdx(j, idx)) => data'[i][j] = data[i][j]
              /\ allclose(Ix(data, idx), carg'.data)
                    => \A i, j \in 1 .. Len(pool) :
                          ~(InIdx(i, idx) /\ InIdx(j, idx)) => data'[i][j] = data[i][j]]_vars
    /\ [][cop' = "set_error" => (pool' = pool /\ data' = data)]_vars

\* A set over one parameter whose held variance was close to the new one
\* without being equal to it, on a C that keeps a covariance between that
\* parameter and another one.
C21_Witness ==
    /\ SetDone
    /\ Len(carg.parameters) = 1
    /\ allclose(sub.data, carg.data)
    /\ sub.data # carg.data
    /\ Ix(data, Indices(pool, carg.parameters)) = carg.data
    /\ \E i, j \in 1 .. Len(pool) :
          Cross(Indices(pool, carg.parameters), i, j) /\ data[i][j] # 0

(***************************************************************************)
(* Symmetry (specification SymSpec: symmetric matrices handed in only).    *)
(***************************************************************************)
\* C22: every Covariance operation preserves symmetry: a Covariance that is
\* made by Covariance(parameters), from_stack or from_factor_matrix and
\* changed by set_subcovariance, with symmetric matrices handed in only,
\* holds a symmetric matrix in every reachable state, and get_subcovariance
\* of it returns a symmetric matrix.
C22_SymmetryPreserved ==
    /\ IsSymmetric(data)
    /\ cop = "get" => IsSymmetric(sub.data)

\* A set over one parameter that cleared its row and column (the held
\* variance was not close to the new one) on a C that keeps a covariance
\* between the other two parameters.
C22_Witness ==
    /\ cop = "set"
    /\ Len(carg.parameters) = 1
    /\ ~allclose(sub.data, carg.data)
    /\ \E i, j \in 1 .. Len(pool) : i # j /\ data[i][j] # 0 /\ data[j][i] = data[i][j]

=============================================================================
